---- MODULE Spec2Model ----
(***************************************************************************)
(* Meeting-availability engine of the KSEB chat-bot server:                *)
(* _find_available_slots in src/src/agent/tools/schedule_tool.py.          *)
(*                                                                         *)
(* Time is counted in seconds from midnight of day 0.  An ISO-8601 string  *)
(* is the record of its fields (date, hh, mm, ss); datetime.fromisoformat  *)
(* and datetime.isoformat convert between the two.  The sub-minute part    *)
(* (seconds and microseconds) is the field ss.                             *)
(***************************************************************************)
EXTENDS Integers, Sequences, FiniteSets

VARIABLES
    schedules_bundle,    \* the argument: the two lists of raw event records
    search_start,        \* the argument search_start (midnight of the first day)
    search_end,          \* the argument search_end
    duration_minutes,    \* the argument duration_minutes
    pc,                  \* position in _find_available_slots
    busy_intervals,      \* the local list busy_intervals
    merged_busy,         \* the local list merged_busy
    test_time,           \* the cursor of the slot loop
    all_possible_slots,  \* the candidate list
    recommendations,     \* the list that is returned
    calls,               \* how many calls with these arguments have returned
    previous_result,     \* what the previous call with these arguments returned
    requests,            \* the recommend_meeting_time coroutines, by request
    in_flight            \* the calendar fetches sent and not yet answered

vars == <<schedules_bundle, search_start, search_end, duration_minutes, pc,
          busy_intervals, merged_busy, test_time, all_possible_slots,
          recommendations, calls, previous_result, requests, in_flight>>

\* The state of one call of _find_available_slots and of its caller.
engine_vars == <<schedules_bundle, search_start, search_end, duration_minutes, pc,
                 busy_intervals, merged_busy, test_time, all_possible_slots,
                 recommendations, calls, previous_result>>

\* The state of the recommend_meeting_time requests.
tool_vars == <<requests, in_flight>>

args == <<schedules_bundle, search_start, search_end, duration_minutes>>

\* ------------------------------------------------------------------ bounds
MaxEvents == 3          \* at most this many event records in a bundle
MaxSearchDays == 5      \* the search window is 1..MaxSearchDays days long
FirstDay == 1           \* the date of search_start; day 0 lies before the window
MaxCalls == 2           \* the caller makes at most this many calls with the same arguments
MaxOneCallEvents == 2   \* at most this many event records in the bundle of SpecOneCall

\* ------------------------------------------------------- program constants
MINUTE == 60
HOUR == 60 * MINUTE
DAY == 24 * HOUR
time_window_start_hour == 9
time_window_end_hour == 22
StepMinutes == 30
AfternoonHour == 14
\* A cap that is one too high.
CapOffByOne == 9 + 1
MaxRecommendations == 9

\* ---------------------------------------------------------------- datetime
\* The hour field of a datetime.
Hour(t) == (t % DAY) \div HOUR

\* t.replace(hour=h, minute=0): the date and the sub-minute part stay.
ReplaceHourMinute(t, h) == (t \div DAY) * DAY + h * HOUR + (t % MINUTE)

\* t.replace(hour=h, minute=0, second=0, microsecond=0)
ReplaceHourMinuteSecond(t, h) == (t \div DAY) * DAY + h * HOUR

\* timedelta(minutes=m)
Minutes(m) == m * MINUTE

\* The values a field of an event record can hold: no such key (or None), the
\* empty string, a string that is no ISO timestamp, an ISO timestamp.
Absent == [kind |-> "absent", date |-> 0, hh |-> 0, mm |-> 0, ss |-> 0]
Empty == [kind |-> "empty", date |-> 0, hh |-> 0, mm |-> 0, ss |-> 0]
Unparsable == [kind |-> "unparsable", date |-> 0, hh |-> 0, mm |-> 0, ss |-> 0]
Iso(d, h, m, s) == [kind |-> "iso", date |-> d, hh |-> h, mm |-> m, ss |-> s]

\* datetime.fromisoformat raises ValueError on a string that is no timestamp.
Parsable(v) == v.kind = "iso"
fromisoformat(v) == v.date * DAY + v.hh * HOUR + v.mm * MINUTE + v.ss

\* datetime.isoformat: 'YYYY-MM-DDTHH:MM:SS'
isoformat(t) ==
    [kind |-> "iso", date |-> t \div DAY, hh |-> (t % DAY) \div HOUR,
     mm |-> (t % HOUR) \div MINUTE, ss |-> t % MINUTE]

\* Python truth of a field value: None and '' are false.
Truthy(v) == v.kind \notin {"absent", "empty"}

\* a or b
PyOr(a, b) == IF Truthy(a) THEN a ELSE b

\* ------------------------------------------------------------------ events
Event(s, sd, e, ed, ad) ==
    [start |-> s, startDatetime |-> sd, end |-> e, endDatetime |-> ed, allDay |-> ad]

\* The records the bundles are drawn from.  list names the list of the bundle
\* the record arrives in.
EventPool ==
    << [list |-> "personal",
        ev |-> Event(Iso(1, 9, 30, 0), Absent, Iso(1, 11, 0, 0), Absent, FALSE)],
       [list |-> "group",
        ev |-> Event(Absent, Iso(1, 10, 0, 0), Empty, Iso(1, 12, 0, 0), FALSE)],
       [list |-> "group",
        ev |-> Event(Iso(1, 20, 0, 0), Absent, Iso(1, 23, 45, 0), Absent, FALSE)],
       [list |-> "personal",
        ev |-> Event(Iso(2, 9, 0, 0), Absent, Iso(2, 10, 0, 0), Absent, FALSE)],
       [list |-> "group",
        ev |-> Event(Iso(1, 11, 0, 0), Absent, Iso(1, 21, 0, 30), Absent, FALSE)],
       [list |-> "personal",
        ev |-> Event(Iso(1, 15, 0, 0), Absent, Iso(1, 14, 0, 0), Absent, FALSE)],
       [list |-> "personal",
        ev |-> Event(Unparsable, Absent, Iso(1, 13, 0, 0), Absent, FALSE)],
       [list |-> "group",
        ev |-> Event(Absent, Empty, Iso(1, 18, 0, 0), Absent, TRUE)],
       [list |-> "personal",
        ev |-> Event(Iso(FirstDay, 15, 20, 0), Absent, Iso(0, 8, 0, 0), Absent, TRUE)] >>

Durations == {60, 780, 900}

RECURSIVE PoolList(_, _, _)
\* The records of the pool with an index in chosen that arrive in list which,
\* in the order of the pool, from index i on.
PoolList(chosen, which, i) ==
    IF i > Len(EventPool) THEN <<>>
    ELSE (IF i \in chosen /\ EventPool[i].list = which
          THEN <<EventPool[i].ev>> ELSE <<>>) \o PoolList(chosen, which, i + 1)

\* actual_data: the bundle the backend answers with, taken out of its "data"
\* envelope when it has one.  Each list arrives under one of its
\* two accepted keys: the personal one as personalEvents, the group one as
\* group_events; a key that is not there reads as the empty list.
Bundle(chosen) ==
    [personalEvents |-> PoolList(chosen, "personal", 1),
     personal_events |-> <<>>,
     groupEvents |-> <<>>,
     group_events |-> PoolList(chosen, "group", 1)]

Bundles ==
    {Bundle(chosen) : chosen \in {c \in SUBSET (1..Len(EventPool)) : Cardinality(c) <= MaxEvents}}

\* -------------------------------------------------------- Event Normalizer
\* actual_data.get("personalEvents") or actual_data.get("personal_events", [])
personal_events(bundle) ==
    IF bundle.personalEvents # <<>> THEN bundle.personalEvents ELSE bundle.personal_events

\* actual_data.get("groupEvents") or actual_data.get("group_events", [])
group_events(bundle) ==
    IF bundle.groupEvents # <<>> THEN bundle.groupEvents ELSE bundle.group_events

\* all_events after the two extend calls
all_events(bundle) == personal_events(bundle) \o group_events(bundle)

start_str(event) == PyOr(event.start, event.startDatetime)
end_str(event) == PyOr(event.end, event.endDatetime)

\* `or` written for `and`: only a record that lacks both is skipped.
SkippedWhenBothMissing(event) == ~(Truthy(start_str(event)) \/ Truthy(end_str(event)))

\* if not (start_str and end_str): continue
Skipped(event) == ~(Truthy(start_str(event)) /\ Truthy(end_str(event)))

\* One of the two fromisoformat calls raises ValueError.
Raises(event) ==
    ~Skipped(event) /\ ~(Parsable(start_str(event)) /\ Parsable(end_str(event)))

\* The end of an allDay interval taken on the day of the event's end.
BusyOfEndDay(event) ==
    LET start_dt == fromisoformat(start_str(event))
        end_dt == fromisoformat(end_str(event))
    IN  IF event.allDay
        THEN <<ReplaceHourMinuteSecond(start_dt, time_window_start_hour),
               ReplaceHourMinuteSecond(end_dt, time_window_end_hour)>>
        ELSE <<start_dt, end_dt>>

\* The busy interval an event that is neither skipped nor raising appends.
BusyOf(event) ==
    LET start_dt == fromisoformat(start_str(event))
        end_dt == fromisoformat(end_str(event))
    IN  IF event.allDay
        THEN <<ReplaceHourMinuteSecond(start_dt, time_window_start_hour),
               ReplaceHourMinuteSecond(start_dt, time_window_end_hour)>>
        ELSE <<start_dt, end_dt>>

RECURSIVE NormalizeFrom(_, _, _)
\* The for loop over all_events from index i on, with busy the list so far:
\* the final list, or raised when a record makes fromisoformat raise.
NormalizeFrom(events, i, busy) ==
    IF i > Len(events) THEN [raised |-> FALSE, busy |-> busy]
    ELSE IF Skipped(events[i]) THEN NormalizeFrom(events, i + 1, busy)
    ELSE IF Raises(events[i]) THEN [raised |-> TRUE, busy |-> busy]
    ELSE NormalizeFrom(events, i + 1, Append(busy, BusyOf(events[i])))

NormalizeEvents(bundle) == NormalizeFrom(all_events(bundle), 1, <<>>)

\* --------------------------------------------------------- Interval Merger
RECURSIVE InsertByStart(_, _)
\* x put after the last entry whose start is not later (list.sort is stable).
InsertByStart(sorted, x) ==
    IF sorted = <<>> THEN <<x>>
    ELSE IF Head(sorted)[1] <= x[1]
         THEN <<Head(sorted)>> \o InsertByStart(Tail(sorted), x)
         ELSE <<x>> \o sorted

\* The merge loop run on the list as it arrived, without the sort.
Unsorted(busy) == busy

RECURSIVE SortByStart(_)
\* busy_intervals.sort(key=lambda x: x[0])
SortByStart(busy) ==
    IF busy = <<>> THEN <<>>
    ELSE InsertByStart(SortByStart(SubSeq(busy, 1, Len(busy) - 1)), busy[Len(busy)])

Max(a, b) == IF a >= b THEN a ELSE b

\* The merge test made against the start of the last entry, not its end.
MergeOneAgainstStart(merged, current) ==
    LET last == merged[Len(merged)]
    IN  IF current[1] < last[1]
        THEN [merged EXCEPT ![Len(merged)] = <<last[1], Max(last[2], current[2])>>]
        ELSE Append(merged, current)

\* The merge test with <= for <: intervals that touch are merged too.
MergeOneTouching(merged, current) ==
    LET last == merged[Len(merged)]
    IN  IF current[1] <= last[2]
        THEN [merged EXCEPT ![Len(merged)] = <<last[1], Max(last[2], current[2])>>]
        ELSE Append(merged, current)

\* The merged end taken from current without max(): an interval that lies inside
\* the last entry cuts it short.
MergeOneCurrentEnd(merged, current) ==
    LET last == merged[Len(merged)]
    IN  IF current[1] < last[2]
        THEN [merged EXCEPT ![Len(merged)] = <<last[1], current[2]>>]
        ELSE Append(merged, current)

\* One turn of the merge loop: current merged into the last entry or appended.
MergeOne(merged, current) ==
    LET last == merged[Len(merged)]
    IN  IF current[1] < last[2]
        THEN [merged EXCEPT ![Len(merged)] = <<last[1], Max(last[2], current[2])>>]
        ELSE Append(merged, current)

RECURSIVE MergeFrom(_, _, _)
MergeFrom(sorted, i, merged) ==
    IF i > Len(sorted) THEN merged
    ELSE MergeFrom(sorted, i + 1, MergeOne(merged, sorted[i]))

\* Step 2 of _find_available_slots.
MergeBusy(busy) ==
    IF busy = <<>> THEN <<>>
    ELSE LET sorted == SortByStart(busy)
         IN  MergeFrom(sorted, 2, <<sorted[1]>>)

\* ---------------------------------------------------------- Slot Generator
\* The cursor started from the time of the call (a clock that moves on by a
\* day between calls) instead of from search_start.
InitialTestTimeFromClock(start) ==
    ReplaceHourMinute(start + calls * DAY, time_window_start_hour)

\* The cursor before the loop.
InitialTestTime(start) == ReplaceHourMinute(start, time_window_start_hour)

\* day_end of the turn that starts with the cursor at t
DayEnd(t) == ReplaceHourMinute(t, time_window_end_hour)

\* The test of the inner for loop on one busy interval.
Intersects(t, duration, busy) == t < busy[2] /\ t + Minutes(duration) > busy[1]

\* The index of the first busy interval the inner loop breaks on, 0 if none.
FirstBusy(t, duration, merged) ==
    LET hits == {i \in 1..Len(merged) : Intersects(t, duration, merged[i])}
    IN  IF hits = {} THEN 0 ELSE CHOOSE i \in hits : \A j \in hits : i <= j

\* The cursor after `if test_time.hour < time_window_start_hour`.
ProbeTime(t) ==
    IF Hour(t) < time_window_start_hour
    THEN ReplaceHourMinute(t, time_window_start_hour)
    ELSE t

\* The slot appended in a turn that found no busy interval, if any.
SlotAt(t, duration) ==
    [start |-> isoformat(ProbeTime(t)), end |-> isoformat(ProbeTime(t) + Minutes(duration))]

Fits(t, duration) == ProbeTime(t) + Minutes(duration) <= DayEnd(t)

\* The rollover without timedelta(days=1): back to the start hour of the same day.
NextTestTimeSameDay(t) ==
    LET stepped == ProbeTime(t) + Minutes(StepMinutes)
    IN  IF Hour(stepped) >= time_window_end_hour
        THEN ReplaceHourMinute(stepped, time_window_start_hour)
        ELSE stepped

\* The rollover without .replace(hour=..., minute=0): the same time a day later.
NextTestTimeNoReset(t) ==
    LET stepped == ProbeTime(t) + Minutes(StepMinutes)
    IN  IF Hour(stepped) >= time_window_end_hour
        THEN stepped + DAY
        ELSE stepped

\* The cursor at the end of a turn that found no busy interval.
NextTestTime(t) ==
    LET stepped == ProbeTime(t) + Minutes(StepMinutes)
    IN  IF Hour(stepped) >= time_window_end_hour
        THEN ReplaceHourMinute(stepped + DAY, time_window_start_hour)
        ELSE stepped

RECURSIVE GenerateFrom(_, _, _, _, _)
\* The while loop from the cursor t on with slots the candidates so far.
GenerateFrom(t, slots, merged, duration, endt) ==
    IF ~(t < endt) THEN slots
    ELSE IF FirstBusy(t, duration, merged) # 0
         THEN GenerateFrom(merged[FirstBusy(t, duration, merged)][2], slots,
                           merged, duration, endt)
         ELSE GenerateFrom(NextTestTime(t),
                           IF Fits(t, duration) THEN Append(slots, SlotAt(t, duration))
                           ELSE slots,
                           merged, duration, endt)

\* Step 3 of _find_available_slots.
GenerateSlots(merged, start, endt, duration) ==
    GenerateFrom(InitialTestTime(start), <<>>, merged, duration, endt)

\* --------------------------------------------------------- Slot Diversifier
\* day = slot["start"][:10]
SlotDay(slot) == slot.start.date

\* start_hour = int(slot["start"][11:13])
SlotHour(slot) == slot.start.hh

\* slots_by_day[day]["morning"]
morning(slots, day) ==
    LET Test(slot) == SlotDay(slot) = day /\ SlotHour(slot) < AfternoonHour
    IN  SelectSeq(slots, Test)

\* slots_by_day[day]["afternoon"]
afternoon(slots, day) ==
    LET Test(slot) == SlotDay(slot) = day /\ ~(SlotHour(slot) < AfternoonHour)
    IN  SelectSeq(slots, Test)

RECURSIVE Ascending(_)
\* The members of a set of dates as an ascending list.
Ascending(days) ==
    IF days = {} THEN <<>>
    ELSE LET least == CHOOSE d \in days : \A e \in days : d <= e
         IN  <<least>> \o Ascending(days \ {least})

\* sorted(slots_by_day.keys())
sorted_days(slots) == Ascending({SlotDay(slots[i]) : i \in 1..Len(slots)})

RECURSIVE PickMorningOnlyFrom(_, _, _, _)
\* The per-day loop without its afternoon pick.
PickMorningOnlyFrom(days, i, slots, recs) ==
    IF i > Len(days) \/ Len(recs) >= MaxRecommendations THEN recs
    ELSE LET am == morning(slots, days[i])
         IN  PickMorningOnlyFrom(days, i + 1, slots,
                                 IF am # <<>> THEN Append(recs, am[1]) ELSE recs)

RECURSIVE PickAfternoonFirstFrom(_, _, _, _)
\* The per-day loop with the afternoon pick made before the morning pick.
PickAfternoonFirstFrom(days, i, slots, recs) ==
    IF i > Len(days) \/ Len(recs) >= MaxRecommendations THEN recs
    ELSE LET am == morning(slots, days[i])
             pm == afternoon(slots, days[i])
             withPm == IF pm # <<>> THEN Append(recs, pm[1]) ELSE recs
         IN  IF Len(withPm) >= MaxRecommendations THEN withPm
             ELSE PickAfternoonFirstFrom(days, i + 1, slots,
                                         IF am # <<>> THEN Append(withPm, am[1]) ELSE withPm)

RECURSIVE PickFrom(_, _, _, _)
\* The loop over sorted_days from index i on.
PickFrom(days, i, slots, recs) ==
    IF i > Len(days) \/ Len(recs) >= MaxRecommendations THEN recs
    ELSE LET am == morning(slots, days[i])
             pm == afternoon(slots, days[i])
             withAm == IF am # <<>> THEN Append(recs, am[1]) ELSE recs
         IN  IF Len(withAm) >= MaxRecommendations THEN withAm
             ELSE PickFrom(days, i + 1, slots,
                           IF pm # <<>> THEN Append(withAm, pm[1]) ELSE withAm)

\* recommendations after the per-day loop
PickPerDay(slots) == PickFrom(sorted_days(slots), 1, slots, <<>>)

RECURSIVE FillAnyFrom(_, _, _, _)
\* The fill loop without its test on existing_starts.
FillAnyFrom(slots, i, recs, existing_starts) ==
    IF i > Len(slots) \/ Len(recs) >= MaxRecommendations THEN recs
    ELSE FillAnyFrom(slots, i + 1, Append(recs, slots[i]), existing_starts)

RECURSIVE FillFrom(_, _, _, _)
\* The fill loop over all_possible_slots from index i on.
FillFrom(slots, i, recs, existing_starts) ==
    IF i > Len(slots) \/ Len(recs) >= MaxRecommendations THEN recs
    ELSE FillFrom(slots, i + 1,
                  IF slots[i].start \notin existing_starts
                  THEN Append(recs, slots[i]) ELSE recs,
                  existing_starts)

\* The return without the fill step.
CapWithoutFill(slots, recs) ==
    SubSeq(recs, 1, IF Len(recs) < MaxRecommendations THEN Len(recs) ELSE MaxRecommendations)

\* The return with every slot moved to the full hour it starts in.
FillAndCapOnTheHour(slots, recs) ==
    LET filled == IF Len(recs) < MaxRecommendations
                  THEN FillFrom(slots, 1, recs, {recs[i].start : i \in 1..Len(recs)})
                  ELSE recs
    IN  [i \in 1..(IF Len(filled) < MaxRecommendations THEN Len(filled)
                    ELSE MaxRecommendations) |-> [filled[i] EXCEPT !.start.mm = 0]]

\* The fill step and the return: recommendations[:9]
FillAndCap(slots, recs) ==
    LET filled == IF Len(recs) < MaxRecommendations
                  THEN FillFrom(slots, 1, recs, {recs[i].start : i \in 1..Len(recs)})
                  ELSE recs
    IN  SubSeq(filled, 1, IF Len(filled) < MaxRecommendations THEN Len(filled)
                          ELSE MaxRecommendations)

\* Step 4 of _find_available_slots.
Diversify(slots) == IF slots = <<>> THEN <<>> ELSE FillAndCap(slots, PickPerDay(slots))

\* What a call returns: the list, or raised when ValueError leaves the function.
Returned(value) == [raised |-> FALSE, value |-> value]
RaisedValueError == [raised |-> TRUE, value |-> <<>>]

\* _find_available_slots as a function of its arguments.
FindAvailableSlots(bundle, start, endt, duration) ==
    LET normalized == NormalizeEvents(bundle)
    IN  IF normalized.raised THEN RaisedValueError
        ELSE Returned(Diversify(GenerateSlots(MergeBusy(normalized.busy), start, endt,
                                              duration)))

\* -------------------------------------------------------------- the machine
Init ==
    /\ schedules_bundle \in Bundles
    /\ search_start = FirstDay * DAY
    /\ \E search_days \in 1..MaxSearchDays : search_end = search_start + search_days * DAY
    /\ duration_minutes \in Durations
    /\ pc = "normalize"
    /\ busy_intervals = <<>>
    /\ merged_busy = <<>>
    /\ test_time = search_start
    /\ all_possible_slots = <<>>
    /\ recommendations = <<>>
    /\ calls = 0
    /\ previous_result = Returned(<<>>)
    /\ requests = <<>>
    /\ in_flight = {}

\* all_events made an alias of the personal list: extend appends the group
\* events to the list of the bundle.
BundleAfterAliasedExtend(bundle) ==
    IF bundle.personalEvents # <<>>
    THEN [bundle EXCEPT !.personalEvents = @ \o group_events(bundle)]
    ELSE [bundle EXCEPT !.personal_events = @ \o group_events(bundle)]

\* The bundle after all_events was built: all_events is a list of its own, the
\* two extend calls and the loop over it only read the bundle.
BundleAfterExtend(bundle) == bundle

\* Step 1: every event becomes a busy interval, is skipped, or raises.
Normalize ==
    /\ UNCHANGED tool_vars
    /\ pc = "normalize"
    /\ busy_intervals' = NormalizeEvents(schedules_bundle).busy
    /\ IF NormalizeEvents(schedules_bundle).raised
       THEN pc' = "raised" /\ calls' = calls + 1
       ELSE pc' = "merge" /\ calls' = calls
    /\ schedules_bundle' = BundleAfterExtend(schedules_bundle)
    /\ UNCHANGED <<search_start, search_end, duration_minutes, merged_busy, test_time,
                   all_possible_slots, recommendations, previous_result>>

\* Step 2, and the cursor and the candidate list set up for step 3.
Merge ==
    /\ UNCHANGED tool_vars
    /\ pc = "merge"
    /\ merged_busy' = MergeBusy(busy_intervals)
    /\ all_possible_slots' = <<>>
    /\ test_time' = InitialTestTime(search_start)
    /\ pc' = "generate"
    /\ UNCHANGED <<args, busy_intervals, recommendations, calls, previous_result>>

\* A turn of the while loop that finds a busy interval and jumps to its end.
GenJump ==
    /\ UNCHANGED tool_vars
    /\ pc = "generate"
    /\ test_time < search_end
    /\ FirstBusy(test_time, duration_minutes, merged_busy) # 0
    /\ test_time' = merged_busy[FirstBusy(test_time, duration_minutes, merged_busy)][2]
    /\ UNCHANGED <<args, pc, busy_intervals, merged_busy, all_possible_slots,
                   recommendations, calls, previous_result>>

\* A turn of the while loop that finds no busy interval.
GenProbe ==
    /\ UNCHANGED tool_vars
    /\ pc = "generate"
    /\ test_time < search_end
    /\ FirstBusy(test_time, duration_minutes, merged_busy) = 0
    /\ all_possible_slots' =
          IF Fits(test_time, duration_minutes)
          THEN Append(all_possible_slots, SlotAt(test_time, duration_minutes))
          ELSE all_possible_slots
    /\ test_time' = NextTestTime(test_time)
    /\ UNCHANGED <<args, pc, busy_intervals, merged_busy, recommendations, calls,
                   previous_result>>

\* The while loop ends.
GenExit ==
    /\ UNCHANGED tool_vars
    /\ pc = "generate"
    /\ ~(test_time < search_end)
    /\ pc' = "diversify"
    /\ UNCHANGED <<args, busy_intervals, merged_busy, test_time, all_possible_slots,
                   recommendations, calls, previous_result>>

\* Step 4 up to the per-day loop; with no candidate the call returns [].
PickDays ==
    /\ UNCHANGED tool_vars
    /\ pc = "diversify"
    /\ IF all_possible_slots = <<>>
       THEN recommendations' = <<>> /\ pc' = "done" /\ calls' = calls + 1
       ELSE /\ recommendations' = PickPerDay(all_possible_slots)
            /\ pc' = "fill"
            /\ calls' = calls
    /\ UNCHANGED <<args, busy_intervals, merged_busy, test_time, all_possible_slots,
                   previous_result>>

\* The fill step and the return.
Fill ==
    /\ UNCHANGED tool_vars
    /\ pc = "fill"
    /\ recommendations' = FillAndCap(all_possible_slots, recommendations)
    /\ pc' = "done"
    /\ calls' = calls + 1
    /\ UNCHANGED <<args, busy_intervals, merged_busy, test_time, all_possible_slots,
                   previous_result>>

\* What the call that has just ended gave its caller.
Outcome == IF pc = "raised" THEN RaisedValueError ELSE Returned(recommendations)


\* The caller keeps the result and calls again with the same arguments.
CallAgain ==
    /\ UNCHANGED tool_vars
    /\ pc \in {"done", "raised"}
    /\ calls < MaxCalls
    /\ previous_result' = Outcome
    /\ pc' = "normalize"
    /\ UNCHANGED <<args, busy_intervals, merged_busy, test_time, all_possible_slots,
                   recommendations, calls>>

Next ==
    \/ Normalize
    \/ Merge
    \/ GenJump
    \/ GenProbe
    \/ GenExit
    \/ PickDays
    \/ Fill
    \/ CallAgain

Spec == Init /\ [][Next]_vars

\* One call of _find_available_slots, on a bundle of at most MaxOneCallEvents
\* records.
InitOneCall == Init /\ Len(all_events(schedules_bundle)) <= MaxOneCallEvents

NextOneCall ==
    \/ Normalize
    \/ Merge
    \/ GenJump
    \/ GenProbe
    \/ GenExit
    \/ PickDays
    \/ Fill

\* The call runs on: _find_available_slots is synchronous code, a step that
\* can be taken is taken.
SpecOneCall == InitOneCall /\ [][NextOneCall]_vars /\ WF_vars(NextOneCall)

\* --------------------------------------------------- recommend_meeting_time
\* The requests that can be running at a time.
Requests == {"r1", "r2"}

\* A key a dict does not have.
NoKey == "(no key)"

\* The error texts.
BadDateFormat == "bad date format: use YYYY-MM-DD"
ApiError == "API error: 500"
RequestError == "request error"
NoCommonTime == "no time found at which every member is free"

\* What _make_api_call returns: the decoded body, or a dict with the key error.
ApiResult(error, bundle) == [error |-> error, data |-> bundle]

\* The answers a fetch can get: four calendars (an empty one, which is also what
\* the dict returned for status 204 reads as, one with day 1 booked, one with
\* an unparsable timestamp, one with two timed events), an HTTP error status,
\* a request that fails.
ApiResults ==
    {ApiResult(NoKey, Bundle(chosen)) : chosen \in {{}, {9}, {7}, {1, 5}}}
        \cup {ApiResult(ApiError, Bundle({})), ApiResult(RequestError, Bundle({}))}

\* The start_date arguments: none, the empty string, no date, a date, a date
\* with a time.
StartDates ==
    {Absent, Empty, Unparsable, Iso(FirstDay, 0, 0, 0), Iso(FirstDay, 15, 20, 0)}

\* The search_days arguments: one day.
SearchDays == {1}

\* The values datetime.now() can give.
Clock == {FirstDay * DAY + 10 * HOUR + 15 * MINUTE + 30, (FirstDay + 1) * DAY + 23 * HOUR}

\* The JSON documents the tool returns, and raised when an exception leaves it.
ToolError(error) ==
    [raised |-> FALSE, error |-> error, message |-> NoKey, recommendations |-> <<>>,
     group_id |-> NoKey]
ToolMessage(message) ==
    [raised |-> FALSE, error |-> NoKey, message |-> message, recommendations |-> <<>>,
     group_id |-> NoKey]
ToolRecommendations(slots, group_id) ==
    [raised |-> FALSE, error |-> NoKey, message |-> NoKey, recommendations |-> slots,
     group_id |-> group_id]
ToolRaised ==
    [raised |-> TRUE, error |-> NoKey, message |-> NoKey, recommendations |-> <<>>,
     group_id |-> NoKey]
NoResult == ToolMessage(NoKey)

\* The except branch that falls back to today instead of returning the error.
NeverRejected(start_date) == FALSE

\* if start_date: ... except ValueError: return the error
RejectedStartDate(start_date) == Truthy(start_date) /\ ~Parsable(start_date)

\* start_time
StartTime(start_date, now) == IF Truthy(start_date) THEN fromisoformat(start_date) ELSE now

\* start_time.replace(hour=0, minute=0, second=0, microsecond=0)
SearchStartTime(start_time) == (start_time \div DAY) * DAY

\* search_start_time + timedelta(days=search_days)
SearchEndTime(search_start_time, search_days) == search_start_time + search_days * DAY

\* The test on the fetched dict left out.
NeverFailed(schedules) == FALSE

\* if schedules_bundle.get("error")
FetchFailed(schedules) == schedules.error # NoKey

\* The test for an empty list left out.
SlotsResultUnchecked(available_slots, group_id) ==
    ToolRecommendations(available_slots, group_id)

\* The two returns after the call of _find_available_slots.
SlotsResult(available_slots, group_id) ==
    IF available_slots = <<>> THEN ToolMessage(NoCommonTime)
    ELSE ToolRecommendations(available_slots, group_id)

\* A request as the agent makes it.
NewRequest(group_id, start_date, duration, search_days) ==
    [pc |-> "called", group_id |-> group_id, start_date |-> start_date,
     duration_minutes |-> duration, search_days |-> search_days,
     start_time |-> 0, search_start_time |-> 0, search_end_time |-> 0,
     interleaved |-> FALSE,
     fetches |-> 0, engine_calls |-> 0,
     schedules_bundle |-> ApiResult(NoKey, Bundle({})),
     available_slots |-> Returned(<<>>),
     result |-> NoResult]

\* The fetch a request sends.
Fetch(r, request) ==
    [request |-> r, group_id |-> request.group_id,
     from |-> isoformat(request.search_start_time), to |-> isoformat(request.search_end_time)]

ToolInit ==
    /\ requests \in [Requests -> {NewRequest(1, start_date, duration, search_days) :
                                     start_date \in StartDates, duration \in Durations,
                                     search_days \in SearchDays}]
    /\ in_flight = {}
    /\ schedules_bundle = Bundle({})
    /\ search_start = FirstDay * DAY
    /\ search_end = (FirstDay + 1) * DAY
    /\ duration_minutes = 60
    /\ pc = "idle"
    /\ busy_intervals = <<>>
    /\ merged_busy = <<>>
    /\ test_time = search_start
    /\ all_possible_slots = <<>>
    /\ recommendations = <<>>
    /\ calls = 0
    /\ previous_result = Returned(<<>>)

\* start_date does not parse: the tool returns the error.
RejectStartDate(r) ==
    /\ requests[r].pc = "called"
    /\ RejectedStartDate(requests[r].start_date)
    /\ requests' = [requests EXCEPT ![r].pc = "returned",
                                    ![r].result = ToolError(BadDateFormat)]
    /\ UNCHANGED in_flight
    /\ UNCHANGED engine_vars

\* The search window is computed and the fetch sent: the coroutine awaits.
SendFetch(r) ==
    /\ requests[r].pc = "called"
    /\ ~RejectedStartDate(requests[r].start_date)
    /\ \E now \in Clock :
          LET start_time == StartTime(requests[r].start_date, now)
              search_start_time == SearchStartTime(start_time)
              sent == [requests[r] EXCEPT
                          !.pc = "awaiting",
                          !.start_time = start_time,
                          !.interleaved = (in_flight # {}),
                          !.search_start_time = search_start_time,
                          !.search_end_time =
                              SearchEndTime(search_start_time, requests[r].search_days),
                          !.fetches = @ + 1]
          IN  /\ requests' = [requests EXCEPT ![r] = sent]
              /\ in_flight' = in_flight \cup {Fetch(r, sent)}
    /\ UNCHANGED engine_vars

\* The search window taken from a fetch in flight on the shared client, whichever
\* coroutine sent it.
LocalsFromFetchInFlight(r) ==
    LET fetch == CHOOSE f \in in_flight : TRUE
    IN  [requests[r] EXCEPT !.search_start_time = fromisoformat(fetch.from),
                            !.search_end_time = fromisoformat(fetch.to)]

\* The locals coroutine r finds when it resumes from its await: its own frame.
Locals(r) == requests[r]

\* The rest of the coroutine, run without a pause once the fetch is answered.
AfterFetch(request, schedules) ==
    IF FetchFailed(schedules)
    THEN [request EXCEPT !.pc = "returned", !.schedules_bundle = schedules,
                         !.result = ToolError(schedules.error)]
    ELSE LET available_slots ==
                 FindAvailableSlots(schedules.data, request.search_start_time,
                                    request.search_end_time, request.duration_minutes)
         IN  [request EXCEPT
                 !.pc = "returned",
                 !.schedules_bundle = schedules,
                 !.engine_calls = @ + 1,
                 !.available_slots = available_slots,
                 !.result = IF available_slots.raised THEN ToolRaised
                            ELSE SlotsResult(available_slots.value, request.group_id)]

\* _make_api_call returns a dict with the key error.
FetchFails(r) ==
    /\ requests[r].pc = "awaiting"
    /\ Fetch(r, requests[r]) \in in_flight
    /\ \E schedules \in {a \in ApiResults : a.error # NoKey} :
          requests' = [requests EXCEPT ![r] = AfterFetch(Locals(r), schedules)]
    /\ in_flight' = in_flight \ {Fetch(r, requests[r])}
    /\ UNCHANGED engine_vars

\* _make_api_call returns the decoded body.
FetchSucceeds(r) ==
    /\ requests[r].pc = "awaiting"
    /\ Fetch(r, requests[r]) \in in_flight
    /\ \E schedules \in {a \in ApiResults : a.error = NoKey} :
          requests' = [requests EXCEPT ![r] = AfterFetch(Locals(r), schedules)]
    /\ in_flight' = in_flight \ {Fetch(r, requests[r])}
    /\ UNCHANGED engine_vars

ToolNext ==
    \/ \E r \in Requests : RejectStartDate(r)
    \/ \E r \in Requests : SendFetch(r)
    \/ \E r \in Requests : FetchFails(r)
    \/ \E r \in Requests : FetchSucceeds(r)

SpecTool == ToolInit /\ [][ToolNext]_vars

\* ------------------------------------------------------------------ claims
Returns == pc \in {"done", "raised"}

SlotStart(slot) == fromisoformat(slot.start)
SlotEnd(slot) == fromisoformat(slot.end)

Candidates == {all_possible_slots[i] : i \in 1..Len(all_possible_slots)}
MergedBusySet == {merged_busy[i] : i \in 1..Len(merged_busy)}

\* C1: every candidate slot [s, s+duration] the Slot Generator emits intersects
\* no interval b of the merged busy set: there is no b with s < b.end and
\* s+duration > b.start.
C1_CandidatesAvoidBusy ==
    pc \in {"generate", "diversify", "fill", "done"} =>
        \A slot \in Candidates : \A b \in MergedBusySet :
            ~(SlotStart(slot) < b[2] /\ SlotStart(slot) + duration_minutes * MINUTE > b[1])

\* C2: the list _find_available_slots returns has at most 9 entries.
C2_AtMostNine == pc = "done" => Len(recommendations) <= 9

\* C2 happens: more than 9 candidates, and 9 of them returned.
C2_Witness == pc = "done" /\ Len(all_possible_slots) > 9 /\ Len(recommendations) = 9

\* C3: every candidate slot lies inside the business window of one calendar
\* day: it starts at or after that day's 09:00 and ends at or before the same
\* day's 22:00.
C3_CandidatesInBusinessWindow ==
    \A slot \in Candidates :
        /\ SlotStart(slot) >= SlotDay(slot) * DAY + 9 * HOUR
        /\ SlotEnd(slot) <= SlotDay(slot) * DAY + 22 * HOUR

\* C4: the merged busy set is sorted ascending by start and every adjacent
\* pair (a, b) satisfies a.end <= b.start.
C4_MergedSortedDisjoint ==
    \A i \in 1..(Len(merged_busy) - 1) :
        /\ merged_busy[i][1] <= merged_busy[i + 1][1]
        /\ merged_busy[i][2] <= merged_busy[i + 1][1]

\* C4 happens: three busy intervals, two of them merged into one.
C4_Witness ==
    pc = "generate" /\ Len(busy_intervals) = 3 /\ Len(merged_busy) = 2

\* C5: every interval of the merged busy set satisfies start < end, also for
\* raw events whose end is equal to or earlier than their start.
C5_MergedWellFormed == \A b \in MergedBusySet : b[1] < b[2]

\* The list seq without its entry i.
RemoveAt(seq, i) == SubSeq(seq, 1, i - 1) \o SubSeq(seq, i + 1, Len(seq))

\* The bundle without record i of all_events.
WithoutEvent(bundle, i) ==
    LET personal == personal_events(bundle)
        group == group_events(bundle)
    IN  [personalEvents |-> IF i <= Len(personal) THEN RemoveAt(personal, i) ELSE personal,
         personal_events |-> <<>>,
         groupEvents |-> <<>>,
         group_events |-> IF i <= Len(personal) THEN group
                          ELSE RemoveAt(group, i - Len(personal))]

\* The call on the same arguments with record i left out of the bundle.
ResultWithout(i) ==
    FindAvailableSlots(WithoutEvent(schedules_bundle, i), search_start, search_end,
                       duration_minutes)

IsMissing(v) == v.kind \in {"absent", "empty"}
IsUnparsable(v) == v.kind = "unparsable"

\* A start or end that is present but no timestamp.
HasUnparsableTimestamp(event) ==
    \/ IsUnparsable(event.start)
    \/ IsMissing(event.start) /\ IsUnparsable(event.startDatetime)
    \/ IsUnparsable(event.end)
    \/ IsMissing(event.end) /\ IsUnparsable(event.endDatetime)

\* A start or end that is absent or empty under both aliases.
HasMissingTimestamp(event) ==
    \/ IsMissing(event.start) /\ IsMissing(event.startDatetime)
    \/ IsMissing(event.end) /\ IsMissing(event.endDatetime)

\* C6: a record whose start or end is present but unparsable is silently
\* skipped: the call does not raise and returns what it returns without it.
C6_UnparsableSkipped ==
    Returns =>
        \A i \in 1..Len(all_events(schedules_bundle)) :
            HasUnparsableTimestamp(all_events(schedules_bundle)[i]) =>
                pc # "raised" /\ Outcome = ResultWithout(i)

\* C7: a record whose start or end is missing contributes no busy interval
\* and the call ends as it ends without the record, also when it is allDay.
C7_MissingSkipped ==
    Returns =>
        \A i \in 1..Len(all_events(schedules_bundle)) :
            HasMissingTimestamp(all_events(schedules_bundle)[i]) =>
                /\ busy_intervals = NormalizeEvents(WithoutEvent(schedules_bundle, i)).busy
                /\ Outcome = ResultWithout(i)

\* C7 happens: an allDay record without start, next to a record that is busy,
\* and slots returned.
C7_Witness ==
    /\ pc = "done"
    /\ recommendations # <<>>
    /\ busy_intervals # <<>>
    /\ \E i \in 1..Len(all_events(schedules_bundle)) :
          /\ HasMissingTimestamp(all_events(schedules_bundle)[i])
          /\ all_events(schedules_bundle)[i].allDay

\* C8: a second call with the same arguments returns the same ordered list
\* (or raises again) as the first.
C8_SameResultTwice == Returns /\ calls >= 2 => Outcome = previous_result

\* C8 happens: the second call has returned a non-empty list.
C8_Witness == pc = "done" /\ calls = 2 /\ recommendations # <<>>

\* C9: the returned list holds no slot twice: no two entries have the same
\* start, fill entries included.
C9_NoDuplicates ==
    pc \in {"fill", "done"} =>
        \A i, j \in 1..Len(recommendations) :
            recommendations[i].start = recommendations[j].start => i = j

\* C9 happens: the fill step has added entries to the per-day picks.
C9_Witness ==
    /\ pc = "done"
    /\ Len(recommendations) > Len(PickPerDay(all_possible_slots))
    /\ PickPerDay(all_possible_slots) # <<>>

RecommendedDays == {SlotDay(recommendations[i]) : i \in 1..Len(recommendations)}
CandidateDays == {SlotDay(slot) : slot \in Candidates}

HasMorning(slots, day) ==
    \E i \in 1..Len(slots) : SlotDay(slots[i]) = day /\ SlotStart(slots[i]) % DAY < 14 * HOUR
HasAfternoon(slots, day) ==
    \E i \in 1..Len(slots) : SlotDay(slots[i]) = day /\ SlotStart(slots[i]) % DAY >= 14 * HOUR

NineOverFiveDays == Len(all_possible_slots) >= 9 /\ Cardinality(CandidateDays) >= 5

\* C10 as stated: with at least 9 candidates over at least 5 days, every day
\* in the returned list has a morning slot and an afternoon slot in it, for
\* each half in which the day has a candidate.
C10_BothHalvesEveryDay ==
    pc = "done" /\ NineOverFiveDays =>
        \A day \in RecommendedDays :
            /\ HasMorning(all_possible_slots, day) => HasMorning(recommendations, day)
            /\ HasAfternoon(all_possible_slots, day) => HasAfternoon(recommendations, day)

\* C10 amended: with at least 9 candidates over at least 5 days, every day in
\* the returned list has a morning slot in it if the day has a morning
\* candidate, and every day in the list other than the day of the last entry
\* has an afternoon slot in it if the day has an afternoon candidate.
C10_BothHalvesButLastDay ==
    pc = "done" /\ NineOverFiveDays =>
        \A day \in RecommendedDays :
            /\ HasMorning(all_possible_slots, day) => HasMorning(recommendations, day)
            /\ HasAfternoon(all_possible_slots, day)
                   /\ day # SlotDay(recommendations[Len(recommendations)])
               => HasAfternoon(recommendations, day)

\* C10 happens: 9 candidates over 5 days, and the last day of the list is
\* there with its morning slot alone.
C10_Witness ==
    /\ pc = "done"
    /\ NineOverFiveDays
    /\ HasAfternoon(all_possible_slots, SlotDay(recommendations[Len(recommendations)]))
    /\ ~HasAfternoon(recommendations, SlotDay(recommendations[Len(recommendations)]))

Min(a, b) == IF a <= b THEN a ELSE b

\* C11: the number of recommendations equals min(9, number of candidates):
\* the fill step tops the per-day picks up with the earliest candidates not
\* yet selected until 9 are reached or the candidates are exhausted.
C11_CountIsMinNineCandidates ==
    pc = "done" => Len(recommendations) = Min(9, Len(all_possible_slots))

\* C11 happens: fewer than 9 candidates, more of them than per-day picks, and
\* all of them returned.
C11_Witness ==
    /\ pc = "done"
    /\ Len(all_possible_slots) < 9
    /\ Len(PickPerDay(all_possible_slots)) < Len(all_possible_slots)
    /\ Len(recommendations) = Len(all_possible_slots)

\* C12: the candidate list is in chronological order: candidate start times
\* are strictly increasing in emission order.
C12_CandidatesIncreasing ==
    \A i \in 1..(Len(all_possible_slots) - 1) :
        SlotStart(all_possible_slots[i]) < SlotStart(all_possible_slots[i + 1])

\* C12 happens: candidates on two days, one of them starting at the end of a
\* busy interval the cursor jumped to.
C12_Witness ==
    /\ pc = "diversify"
    /\ Cardinality({SlotDay(slot) : slot \in Candidates}) >= 2
    /\ \E slot \in Candidates : \E b \in MergedBusySet : SlotStart(slot) = b[2]

\* The busy intervals in the order the merger scans them.
ScanOrder == SortByStart(busy_intervals)

\* The entries of ScanOrder that start a new merged interval: the first one
\* and every one that does not start strictly before the end of the running
\* interval, which is the latest end seen so far.
RunStarts ==
    {k \in 1..Len(ScanOrder) : \A j \in 1..(k - 1) : ~(ScanOrder[k][1] < ScanOrder[j][2])}

\* The last entry of the run that starts at k.
RunLast(k) ==
    IF \E n \in RunStarts : n > k
    THEN (CHOOSE n \in RunStarts : n > k /\ \A o \in RunStarts : o > k => n <= o) - 1
    ELSE Len(ScanOrder)

\* The latest end among the entries k..RunLast(k).
RunEnd(k) ==
    CHOOSE e \in {ScanOrder[j][2] : j \in k..RunLast(k)} :
        \A j \in k..RunLast(k) : ScanOrder[j][2] <= e

\* C13: the merger merges an interval into the running one exactly when it
\* starts strictly before the running interval's end, with end = max of the
\* ends, and keeps intervals that merely touch as separate entries.
C13_MergeExactlyOnOverlap ==
    pc = "diversify" =>
        /\ Len(merged_busy) = Cardinality(RunStarts)
        /\ \A k \in RunStarts :
              merged_busy[Cardinality({n \in RunStarts : n <= k})] = <<ScanOrder[k][1], RunEnd(k)>>

\* C13 happens: of three busy intervals two overlap and are merged, and the
\* result touches the third, which stays a separate entry.
C13_Witness ==
    /\ pc = "diversify"
    /\ Len(busy_intervals) = 3
    /\ Len(merged_busy) = 2
    /\ merged_busy[1][2] = merged_busy[2][1]

\* The start timestamp a record gives, under the alias that holds it.
GivenStart(event) == IF IsMissing(event.start) THEN event.startDatetime ELSE event.start

\* The position in busy_intervals of the interval of record i of all_events.
BusyIndex(i) ==
    Cardinality({j \in 1..i : ~HasMissingTimestamp(all_events(schedules_bundle)[j])})

\* C14: an allDay event with a start timestamp on day D is normalized to
\* exactly the busy interval [D 09:00, D 22:00), whatever the time of day of
\* its start and whatever its end timestamp.
C14_AllDayIsBusinessWindow ==
    pc \in {"merge", "diversify"} =>
        \A i \in 1..Len(all_events(schedules_bundle)) :
            LET event == all_events(schedules_bundle)[i]
            IN  event.allDay /\ ~HasMissingTimestamp(event) =>
                    busy_intervals[BusyIndex(i)] =
                        <<GivenStart(event).date * DAY + 9 * HOUR,
                          GivenStart(event).date * DAY + 22 * HOUR>>

\* C14 happens: an allDay record that starts in mid-afternoon and ends on
\* another day has been normalized.
C14_Witness ==
    /\ pc = "merge"
    /\ \E i \in 1..Len(all_events(schedules_bundle)) :
          LET event == all_events(schedules_bundle)[i]
          IN  /\ event.allDay
              /\ ~HasMissingTimestamp(event)
              /\ GivenStart(event).hh > 9
              /\ event.end.date # GivenStart(event).date

\* A single busy interval [09:00, 22:00) on day 1 of a 2-day search, and a
\* duration that fits the business window.
FullyBookedFirstDay ==
    /\ merged_busy = <<<<search_start + 9 * HOUR, search_start + 22 * HOUR>>>>
    /\ search_end = search_start + 2 * DAY
    /\ duration_minutes * MINUTE <= (22 - 9) * HOUR

\* C15: with day 1 of a 2-day search fully booked, no candidate lies on day 1
\* and all candidates and recommendations lie on day 2, from day 2 09:00 on.
C15_FullyBookedDaySkipped ==
    pc \in {"diversify", "fill", "done"} /\ FullyBookedFirstDay =>
        /\ all_possible_slots # <<>>
        /\ \A slot \in Candidates : SlotDay(slot) = search_start \div DAY + 1
        /\ SlotStart(all_possible_slots[1]) = search_start + DAY + 9 * HOUR
        /\ pc = "done" =>
              /\ recommendations # <<>>
              /\ \A i \in 1..Len(recommendations) :
                    SlotDay(recommendations[i]) = search_start \div DAY + 1

\* C15 happens: such a call has returned.
C15_Witness == pc = "done" /\ FullyBookedFirstDay /\ Len(recommendations) = 9

\* C16: if the duration exceeds the business window span, no candidate is
\* emitted on any day and the call returns the empty list without raising,
\* for every set of events and every search window length.
C16_TooLongGivesEmptyList ==
    Returns /\ duration_minutes * MINUTE > (22 - 9) * HOUR =>
        pc = "done" /\ all_possible_slots = <<>> /\ recommendations = <<>>

\* C17: with no events, duration 60 and a 3-day window the first
\* recommendation is {day-1 09:00, day-1 10:00}, the list has exactly 9
\* entries, and each of the 3 days has in it a slot starting before 14:00 and
\* a slot starting at or after 14:00.
C17_EmptyCalendarThreeDays ==
    /\ pc = "done"
    /\ all_events(schedules_bundle) = <<>>
    /\ duration_minutes = 60
    /\ search_end = search_start + 3 * DAY
    => /\ Len(recommendations) = 9
       /\ recommendations[1] = [start |-> Iso(search_start \div DAY, 9, 0, 0),
                                end |-> Iso(search_start \div DAY, 10, 0, 0)]
       /\ \A day \in (search_start \div DAY)..(search_start \div DAY + 2) :
             HasMorning(recommendations, day) /\ HasAfternoon(recommendations, day)

\* C17 happens: that call has returned.
C17_Witness ==
    /\ pc = "done"
    /\ all_events(schedules_bundle) = <<>>
    /\ duration_minutes = 60
    /\ search_end = search_start + 3 * DAY
    /\ recommendations # <<>>

\* The requests that have returned.
ReturnedRequests == {r \in Requests : requests[r].pc = "returned"}

\* Nothing was fetched and nothing computed for request r.
NothingBegun(r) ==
    /\ requests[r].fetches = 0
    /\ requests[r].engine_calls = 0
    /\ \A fetch \in in_flight : fetch.request # r
    /\ requests[r].pc = "returned" => requests[r].result = ToolError(BadDateFormat)

\* C18: a request whose start_date is a string that fromisoformat does not
\* parse sends no calendar fetch, never calls _find_available_slots, and
\* returns the date-format error.
C18_UnparsableStartDateRejected ==
    \A r \in Requests :
        requests[r].start_date # Absent /\ ~Parsable(requests[r].start_date)
            => NothingBegun(r)

\* C18 as the code has it: a request whose start_date is a non-empty string
\* that fromisoformat does not parse sends no calendar fetch, never calls
\* _find_available_slots, and returns the date-format error.
C18_NonEmptyUnparsableStartDateRejected ==
    \A r \in Requests :
        Truthy(requests[r].start_date) /\ ~Parsable(requests[r].start_date)
            => NothingBegun(r)

\* C18 happens: a request with an unparsable start_date has returned the
\* error while another request got as far as its fetch.
C18_Witness ==
    \E r \in ReturnedRequests :
        /\ requests[r].start_date = Unparsable
        /\ requests[r].result.error = BadDateFormat
        /\ \E other \in Requests \ {r} : requests[other].fetches = 1

\* C19: a request whose fetch was answered with an error (an HTTP error
\* status or a failed request) returns an error result carrying that error,
\* without a call of _find_available_slots; the result is no 'no common time'
\* message.
C19_FetchErrorReported ==
    \A r \in ReturnedRequests :
        requests[r].schedules_bundle.error # NoKey
            => /\ requests[r].result = ToolError(requests[r].schedules_bundle.error)
               /\ requests[r].result.error \in {ApiError, RequestError}
               /\ requests[r].result.message = NoKey
               /\ requests[r].engine_calls = 0

\* C19 happens: one request has returned the HTTP error, another the request
\* error.
C19_Witness ==
    \E r, other \in ReturnedRequests :
        /\ requests[r].fetches = 1
        /\ requests[r].result.error = ApiError
        /\ requests[other].fetches = 1
        /\ requests[other].result.error = RequestError

\* The call of _find_available_slots of a returned request got past the
\* normalizer and generated no candidate.
NoCandidateSlot(request) ==
    /\ request.engine_calls = 1
    /\ ~NormalizeEvents(request.schedules_bundle.data).raised
    /\ GenerateSlots(MergeBusy(NormalizeEvents(request.schedules_bundle.data).busy),
                     request.search_start_time, request.search_end_time,
                     request.duration_minutes) = <<>>

\* C20: when the generator produces no candidate, _find_available_slots
\* returns the empty list without raising, and recommend_meeting_time returns
\* the 'no common time' message, a result without an error key.
C20_NoCandidateIsNormalResult ==
    \A r \in ReturnedRequests :
        NoCandidateSlot(requests[r])
            => /\ requests[r].available_slots = Returned(<<>>)
               /\ requests[r].result = ToolMessage(NoCommonTime)
               /\ requests[r].result.error = NoKey
               /\ ~requests[r].result.raised

\* C20 happens: a request for one hour on a day an allDay event books has
\* returned the message.
C20_Witness ==
    \E r \in ReturnedRequests :
        /\ NoCandidateSlot(requests[r])
        /\ requests[r].duration_minutes = 60
        /\ all_events(requests[r].schedules_bundle.data) # <<>>
        /\ requests[r].result.message = NoCommonTime

\* What a request returns when it runs alone: the steps of the coroutine one
\* after the other on its own parameters, its own clock reading and the answer
\* its fetch got.
AloneResult(request) ==
    IF RejectedStartDate(request.start_date) THEN ToolError(BadDateFormat)
    ELSE LET search_start_time == SearchStartTime(request.start_time)
             alone == [NewRequest(request.group_id, request.start_date,
                                  request.duration_minutes, request.search_days)
                          EXCEPT !.search_start_time = search_start_time,
                                 !.search_end_time =
                                     SearchEndTime(search_start_time, request.search_days)]
         IN  AfterFetch(alone, request.schedules_bundle).result

\* A step of one coroutine leaves the record of every other request as it was.
OneRequestPerStep ==
    \A r \in Requests :
        requests'[r] # requests[r] => \A other \in Requests \ {r} : requests'[other] = requests[other]

\* C21: two requests interleaved in any order at their await each return the
\* result they return when run alone with the same parameters and the same
\* fetched bundle, and a step of one request changes nothing of the other.
C21_ConcurrentAsAlone ==
    /\ [](\A r \in ReturnedRequests : requests[r].result = AloneResult(requests[r]))
    /\ [][OneRequestPerStep]_vars

\* C21 happens: both requests have returned recommendations, for different
\* search windows, and one sent its fetch while the other was at its await.
C21_Witness ==
    \E r \in ReturnedRequests : \E other \in ReturnedRequests \ {r} :
        /\ requests[r].interleaved
        /\ requests[r].search_start_time # requests[other].search_start_time
        /\ requests[r].result.recommendations # <<>>
        /\ requests[other].result.recommendations # <<>>
        /\ requests[r].result # requests[other].result

\* Instant t lies in one of the intervals [start, end) of the list.
Covered(t, intervals) ==
    \E i \in 1..Len(intervals) : intervals[i][1] <= t /\ t < intervals[i][2]

\* The instants at which the cover of either list can change: every start and
\* every end of busy_intervals and of merged_busy.
Endpoints ==
    {busy_intervals[i][1] : i \in 1..Len(busy_intervals)}
        \cup {busy_intervals[i][2] : i \in 1..Len(busy_intervals)}
        \cup {merged_busy[i][1] : i \in 1..Len(merged_busy)}
        \cup {merged_busy[i][2] : i \in 1..Len(merged_busy)}

WellFormedBusy == \A i \in 1..Len(busy_intervals) : busy_intervals[i][1] < busy_intervals[i][2]

\* C22: when every busy interval has start < end, an instant lies in a merged
\* interval if and only if it lies in a busy interval (the covers are step
\* functions of the endpoints, so the endpoints stand for every instant).
C22_MergedCoversSame ==
    pc = "diversify" /\ WellFormedBusy =>
        \A t \in Endpoints : Covered(t, busy_intervals) <=> Covered(t, merged_busy)

\* C22 happens: three well-formed intervals were merged into fewer, one of
\* them lying strictly inside a merged interval.
C22_Witness ==
    /\ pc = "diversify"
    /\ WellFormedBusy
    /\ Len(busy_intervals) = 3
    /\ Len(merged_busy) < 3
    /\ \E i \in 1..3 : \E j \in 1..Len(merged_busy) :
          merged_busy[j][1] < busy_intervals[i][1] /\ busy_intervals[i][2] < merged_busy[j][2]

RECURSIVE MergeTouchingFrom(_, _, _)
\* The merge loop with intervals that touch merged as well.
MergeTouchingFrom(sorted, i, merged) ==
    IF i > Len(sorted) THEN merged
    ELSE MergeTouchingFrom(sorted, i + 1, MergeOneTouching(merged, sorted[i]))

\* The merged busy set if touching intervals were merged as well.
MergeBusyTouching(busy) ==
    IF busy = <<>> THEN <<>>
    ELSE LET sorted == SortByStart(busy)
         IN  MergeTouchingFrom(sorted, 2, <<sorted[1]>>)

\* C23: the candidate list generated from the merged busy set of the code
\* (merge only when next.start < running.end) is the list generated from the
\* busy set in which touching intervals are merged as well.
C23_TouchingUnmergedSameCandidates ==
    pc = "diversify" =>
        all_possible_slots = GenerateSlots(MergeBusyTouching(busy_intervals), search_start,
                                           search_end, duration_minutes)

\* C23 happens: the merged busy set holds two intervals that touch, which the
\* other rule merges into one, and candidates were generated.
C23_Witness ==
    /\ pc = "diversify"
    /\ \E i \in 1..(Len(merged_busy) - 1) : merged_busy[i][2] = merged_busy[i + 1][1]
    /\ Len(MergeBusyTouching(busy_intervals)) < Len(merged_busy)
    /\ all_possible_slots # <<>>

\* The date of an instant, and startHour:00:00 of a date.
DayOf(t) == t \div DAY
StartOfDay(day) == day * DAY + time_window_start_hour * HOUR

\* One turn of the Slot Generator as C24 has it.  Before the loop the cursor is
\* put at startHour:00 of the first day; a turn that meets a busy interval
\* leaves the cursor at that interval's end; a turn that tests a position
\* leaves it 30 minutes later, or, when that reaches or passes endHour, at
\* startHour:00 of the next calendar day (no day is jumped over).
TurnOnGrid ==
    /\ pc = "merge" => test_time' = StartOfDay(DayOf(search_start))
    /\ pc = "generate" /\ pc' = "generate"
          /\ FirstBusy(test_time, duration_minutes, merged_busy) # 0
          => test_time' = merged_busy[FirstBusy(test_time, duration_minutes, merged_busy)][2]
    /\ pc = "generate" /\ pc' = "generate"
          /\ FirstBusy(test_time, duration_minutes, merged_busy) = 0
          => LET tested == ProbeTime(test_time)
                 stepped == tested + Minutes(StepMinutes)
             IN  ProbeTime(test_time') =
                     IF Hour(stepped) >= time_window_end_hour \/ DayOf(stepped) > DayOf(tested)
                     THEN StartOfDay(DayOf(tested) + 1)
                     ELSE stepped

\* C24: the cursor starts at startHour:00, moves on by 30 minutes after each
\* tested position, jumps to exactly the end of a busy interval it meets, and
\* once it reaches or passes endHour restarts at startHour:00 of the next
\* calendar day, jumping over no day.
C24_CursorOnGrid == [][TurnOnGrid]_vars

\* The candidates of a day that start before 14:00, and those that do not.
MorningOf(day) ==
    {slot \in Candidates : SlotDay(slot) = day /\ SlotHour(slot) < AfternoonHour}
AfternoonOf(day) ==
    {slot \in Candidates : SlotDay(slot) = day /\ SlotHour(slot) >= AfternoonHour}

\* The earliest slot of a non-empty set, as a list of one.
Earliest(slots) ==
    IF slots = {} THEN <<>>
    ELSE <<CHOOSE slot \in slots : \A other \in slots : SlotStart(slot) <= SlotStart(other)>>

RECURSIVE DayPicks(_, _)
\* For each date from index i on, in ascending order: the earliest morning
\* candidate, then the earliest afternoon candidate.
DayPicks(days, i) ==
    IF i > Len(days) THEN <<>>
    ELSE Earliest(MorningOf(days[i])) \o Earliest(AfternoonOf(days[i])) \o DayPicks(days, i + 1)

\* The per-day picks of the candidate list, then the other candidates.
PicksThenFill ==
    LET picks == DayPicks(Ascending(CandidateDays), 1)
        NotPicked(slot) == \A i \in 1..Len(picks) : picks[i] # slot
    IN  picks \o SelectSeq(all_possible_slots, NotPicked)

\* How many entries of recommendations are per-day picks.
PickCount == Min(Len(recommendations), Len(DayPicks(Ascending(CandidateDays), 1)))

\* C25: the recommendation list is the head of: the per-day picks in ascending
\* date order (earliest morning candidate, then earliest afternoon candidate of
\* each day), followed by the other candidates in chronological order; its
\* first entry is the chronologically earliest candidate.
C25_PicksThenChronologicalFill ==
    pc = "done" /\ recommendations # <<>> =>
        /\ recommendations = SubSeq(PicksThenFill, 1, Len(recommendations))
        /\ \A i, j \in (PickCount + 1)..Len(recommendations) :
              i < j => SlotStart(recommendations[i]) < SlotStart(recommendations[j])
        /\ \A slot \in Candidates : SlotStart(recommendations[1]) <= SlotStart(slot)

\* C25 happens: a list of 9 with picks of two days or more, a day among them
\* that has afternoon candidates only, and fill entries after the picks.
C25_Witness ==
    /\ pc = "done"
    /\ Len(recommendations) = MaxRecommendations
    /\ Cardinality(CandidateDays) >= 2
    /\ \E day \in CandidateDays : MorningOf(day) = {}
    /\ PickCount < Len(recommendations)

\* C26: every slot of the recommendation list is a candidate the Slot
\* Generator emitted, with the same start and the same end, after the per-day
\* picks and after the fill.
C26_RecommendationsAreCandidates ==
    pc \in {"fill", "done"} =>
        \A i \in 1..Len(recommendations) :
            \E j \in 1..Len(all_possible_slots) :
                /\ recommendations[i].start = all_possible_slots[j].start
                /\ recommendations[i].end = all_possible_slots[j].end

\* C26 happens: the call returned a selection of the candidates, not all of
\* them, in an order that is not the order of the candidate list.
C26_Witness ==
    /\ pc = "done"
    /\ Len(recommendations) < Len(all_possible_slots)
    /\ \E i, j \in 1..Len(recommendations) :
          i < j /\ SlotStart(recommendations[i]) > SlotStart(recommendations[j])

\* A turn of the while loop leaves the cursor later than it found it.
CursorAdvances == pc = "generate" /\ pc' = "generate" => test_time' > test_time

\* C27: every turn of the Slot Generator loop strictly advances the cursor,
\* and the loop ends: a call that enters the loop leaves it.
C27_GeneratorTerminates ==
    /\ [][CursorAdvances]_vars
    /\ (pc = "generate") ~> (pc = "diversify")

\* C27 happens: the loop has ended after turns that jumped over a busy interval
\* reaching beyond the window's last day-end, in a window of several days.
C27_Witness ==
    /\ pc = "diversify"
    /\ search_end >= search_start + 2 * DAY
    /\ test_time >= search_end
    /\ \E i \in 1..Len(merged_busy) : merged_busy[i][2] > DayEnd(search_start)

\* The ways of putting n records in an order.
Orders(n) == {order \in [1..n -> 1..n] : \A i, j \in 1..n : i # j => order[i] # order[j]}

\* The bundle with the records of all_events in the given order, the first
\* split of them in the personal list and the others in the group list.
Rearranged(bundle, order, split) ==
    LET events == all_events(bundle)
        moved == [i \in 1..Len(events) |-> events[order[i]]]
    IN  [personalEvents |-> SubSeq(moved, 1, split),
         personal_events |-> <<>>,
         groupEvents |-> <<>>,
         group_events |-> SubSeq(moved, split + 1, Len(events))]

\* The order in which the records arrived.
Arrived(n) == [i \in 1..n |-> i]

\* C28: for a bundle whose events all give a busy interval with start < end
\* (or are skipped), every order of the same records combined with every split
\* of them over the personal and the group list gives the same merged busy
\* set, and every order, as well as every split, gives the same
\* recommendations.
C28_OrderAndListDoNotMatter ==
    pc = "done" /\ WellFormedBusy =>
        LET n == Len(all_events(schedules_bundle))
            Result(other) ==
                FindAvailableSlots(other, search_start, search_end, duration_minutes)
        IN  /\ \A order \in Orders(n) : \A split \in 0..n :
                   MergeBusy(NormalizeEvents(Rearranged(schedules_bundle, order, split)).busy)
                       = merged_busy
            /\ \A order \in Orders(n) :
                   Result(Rearranged(schedules_bundle, order,
                                     Len(personal_events(schedules_bundle))))
                       = Returned(recommendations)
            /\ \A split \in 0..n :
                   Result(Rearranged(schedules_bundle, Arrived(n), split))
                       = Returned(recommendations)

\* C28 happens: a call returned recommendations for two events, one from each
\* list, whose intervals overlap and were merged into one.
C28_Witness ==
    /\ pc = "done"
    /\ WellFormedBusy
    /\ Len(busy_intervals) = 2
    /\ personal_events(schedules_bundle) # <<>>
    /\ group_events(schedules_bundle) # <<>>
    /\ Len(merged_busy) = 1
    /\ recommendations # <<>>

\* The dates of the search window.
WindowDays == DayOf(search_start)..(DayOf(search_end - 1))

\* No instant of [p, p + duration) lies in a busy interval [start, end); an
\* interval whose end is not after its start holds no instant.
FreeAt(p) ==
    \A i \in 1..Len(merged_busy) :
        merged_busy[i][1] < merged_busy[i][2]
            => ~(p < merged_busy[i][2] /\ p + Minutes(duration_minutes) > merged_busy[i][1])

\* The free positions of a day from which a meeting fits before endHour:00.  A
\* free stretch that is long enough begins at startHour:00 or at the end of a
\* busy interval.
FreeStarts(day) ==
    {p \in {StartOfDay(day)} \cup {merged_busy[i][2] : i \in 1..Len(merged_busy)} :
        /\ StartOfDay(day) <= p
        /\ p + Minutes(duration_minutes) <= day * DAY + time_window_end_hour * HOUR
        /\ FreeAt(p)}

\* C29: every candidate starts at or after startHour:00 of the first day of the
\* window and before search_end, and every day of the window that has free
\* time for the meeting has a candidate, however many candidates the earlier
\* days gave.
C29_CandidatesCoverWindow ==
    pc = "diversify" =>
        /\ \A slot \in Candidates :
              /\ StartOfDay(DayOf(search_start)) <= SlotStart(slot)
              /\ SlotStart(slot) < search_end
        /\ \A day \in WindowDays : FreeStarts(day) # {} => day \in CandidateDays

\* A step leaves the bundle, its two lists and every record in them as they are.
InputUntouched ==
    /\ schedules_bundle' = schedules_bundle
    /\ personal_events(schedules_bundle') = personal_events(schedules_bundle)
    /\ group_events(schedules_bundle') = group_events(schedules_bundle)
    /\ all_events(schedules_bundle') = all_events(schedules_bundle)

\* C30: no step of _find_available_slots changes its input: the bundle, the
\* contents and the order of its personal and group lists and every event
\* record are after the call what they were before it.
C30_InputUnchanged == [][InputUntouched]_vars

\* C30 happens: a call on events from both lists, which were sorted and merged
\* into fewer busy intervals, has returned.
C30_Witness ==
    /\ pc = "done"
    /\ calls = 1
    /\ personal_events(schedules_bundle) # <<>>
    /\ group_events(schedules_bundle) # <<>>
    /\ busy_intervals # SortByStart(busy_intervals)
    /\ Len(merged_busy) < Len(busy_intervals)

============================================================================
